---- MODULE Spec2Model ----
(***************************************************************************)
(* The store engine of createStore (src/src-withComment/applyMiddleware.js *)
(* lines 78-347): state, listener lists, the dispatch loop, subscribe and  *)
(* unsubscribe and getState.                                               *)
(*                                                                         *)
(* Execution is single-threaded and synchronous.  dispatch calls back into *)
(* user code (the reducer, then each listener), and that user code may     *)
(* call the store again, so one dispatch call is a frame on a call stack   *)
(* and the steps of the model are the points where control passes between *)
(* the store and user code.  Whatever is on top of the stack (the reducer  *)
(* or the running listener of the top frame, or the application when the   *)
(* stack is empty) is the code that makes the next call.                   *)
(***************************************************************************)
EXTENDS Integers, Sequences, FiniteSets, TLC

\* ------------------------------------------------------------------ bounds
\* store calls that change the store (subscribe, first unsubscribe, dispatch
\* that reaches the reducer) in one run
MaxCalls == 5

\* ------------------------------------------------------------- the values
\* JavaScript's undefined, as a state value (states are naturals otherwise)
Undefined == -1
\* the `type` of an action that has none
NoType == "undefined"
INIT == "@@redux/INIT"

\* an action value: `plain` is what isPlainObject answers for it
Act(t) == [plain |-> TRUE, type |-> t]
NotAnObject == [plain |-> FALSE, type |-> NoType]
Untyped == [plain |-> TRUE, type |-> NoType]
ValidActions == {Act("INC"), Act("NOOP")}
Actions == ValidActions \cup {NotAnObject, Untyped}
IsPlainObject(a) == a.plain

\* listener functions the application owns; "notFn" is a non-callable value
ListenerFns == {"f", "g"}
\* the reducer the application owns: (s = 0, a) => a.type === 'INC' ? s + 1 : s
ReducerFns == {"counter"}
\* the reducers it gives to replaceReducer: the counter, and one that keeps
\* the state even and counts by two:
\*   (s = 0, a) => { const e = s + s % 2; return a.type === 'INC' ? e + 2 : e }
NextReducerFns == {"counter", "evens"}
PreloadedStates == {Undefined, 5}

\* the values the application gives to the observable's subscribe: an object
\* with a next method, an object without one, null and a number
Observers == {"hasNext", "noNext"}
NotObservers == {"null", "notObject"}
\* observer.next, line 319
\* (variant: the method is taken to be there)
AssumesNext(observer) == TRUE
HasNextMethod(observer) == observer = "hasNext"
\* observeState(), lines 318-322, called when the state is st: what it
\* passes to observer.next
Delivery(observer, st) ==
    IF observer \in Observers /\ HasNextMethod(observer)
    THEN <<[to |-> observer, value |-> st]>>
    ELSE <<>>

\* (variant: a reducer call whose result is lost)
ReduceSkipsUpdate(r, s, a) == IF s = Undefined THEN 0 ELSE s
Reduce(r, s, a) ==
    LET s0 == IF s = Undefined THEN 0 ELSE s
        e == s0 + (s0 % 2)
    IN IF r = "evens"
       THEN IF a.type = "INC" THEN e + 2 ELSE e
       ELSE IF a.type = "INC" THEN s0 + 1 ELSE s0

Range(s) == {s[k] : k \in 1..Len(s)}
Count(s, x) == Cardinality({k \in 1..Len(s) : s[k] = x})

\* --------------------------------------------------------- combineReducers
\* (src/src-withComment/combineReducers.js)
\* the keys of the object given to combineReducers, in Object.keys order,
\* and a key that states may hold and no reducer is given for
ReducerKeys == <<"a", "b">>
ExtraKey == "x"
\* the values under those keys: functions of the application,
\*   counter    (s = 0, a) => a.type === 'INC' ? s + 1 : s
\*   noDefault  (s, a) => s
\*   initOnly   (s, a) => s === undefined && a.type === INIT ? 0 : s
\*   lossy      (s = 0, a) => a.type === 'INC' ? undefined : s
\* and "notFn", a value that is not a function
SubReducerFns == {"counter", "noDefault", "initOnly", "lossy"}
ReducerMaps ==
    UNION {[D -> SubReducerFns \cup {"notFn"}] : D \in SUBSET Range(ReducerKeys)}
\* the type of the probe of line 73, which no reducer can know
PROBE == "@@redux/PROBE_UNKNOWN_ACTION"

Sub(f, s, a) ==
    CASE f = "counter" ->
             LET s0 == IF s = Undefined THEN 0 ELSE s
             IN IF a.type = "INC" THEN s0 + 1 ELSE s0
      [] f = "noDefault" -> s
      [] f = "initOnly" -> IF s = Undefined /\ a.type = INIT THEN 0 ELSE s
      [] f = "lossy" ->
             IF a.type = "INC" THEN Undefined
             ELSE IF s = Undefined THEN 0 ELSE s

\* A whole state is an object with identity: ref tells objects apart, map
\* holds its keys and their values.  NoState is undefined.
EmptyMap == [k \in {} |-> 0]
Obj(ref, map) == [ref |-> ref, map |-> map]
NoState == Obj(0, EmptyMap)
\* state[key]
Get(m, k) == IF k \in DOMAIN m THEN m[k] ELSE Undefined
Least(S) == CHOOSE i \in S : \A j \in S : i <= j

NoError == [kind |-> "none", key |-> "none"]
\* Object.keys(finalReducers)
FinalKeys(final) == SelectSeq(ReducerKeys, LAMBDA k : k \in DOMAIN final)
\* the two probes of one reducer, lines 60-84
ProbeError(reducer) ==
    IF Sub(reducer, Undefined, Act(INIT)) = Undefined THEN "init"
    ELSE IF Sub(reducer, Undefined, Act(PROBE)) = Undefined THEN "probe"
    ELSE "none"
\* assertReducerShape(reducers), lines 58-86: the error thrown, or NoError
AssertReducerShape(reducers) ==
    LET keys == FinalKeys(reducers)
        bad == {i \in 1..Len(keys) : ProbeError(reducers[keys[i]]) # "none"}
    IN IF bad = {} THEN NoError
       ELSE [kind |-> ProbeError(reducers[keys[Least(bad)]]), key |-> keys[Least(bad)]]

\* lines 144-149: the error combineReducers keeps
\* (variant: the error is dropped)
ShapeErrorDropped(finalReducers) == NoError
ShapeAssertionError(finalReducers) == AssertReducerShape(finalReducers)

\* combineReducers(reducers), lines 121-150: what the returned function
\* captures
NotCombined == [made |-> FALSE, finalReducers |-> EmptyMap, shapeAssertionError |-> NoError]
Combined(reducers) ==
    LET finalReducers ==
            [k \in {k \in DOMAIN reducers : reducers[k] \in SubReducerFns} |-> reducers[k]]
    IN [made |-> TRUE, finalReducers |-> finalReducers,
        shapeAssertionError |-> ShapeAssertionError(finalReducers)]

\* line 177: the value returned when no reducer threw
\* (variant: the new object is returned every time)
AlwaysNextState(hasChanged, nextState, state) == nextState
Returned(hasChanged, nextState, state) == IF hasChanged THEN nextState ELSE state

\* combination(state = {}, action), lines 151-178: error is what it throws
\* (NoError when it returns), value what it returns and ran the keys whose
\* reducers it has called, in order
Combination(c, state0, action) ==
    LET state == IF state0 = NoState THEN Obj(1, EmptyMap) ELSE state0
        keys == FinalKeys(c.finalReducers)
        next == [k \in Range(keys) |-> Sub(c.finalReducers[k], Get(state.map, k), action)]
        bad == {i \in 1..Len(keys) : next[keys[i]] = Undefined}
        hasChanged == \E k \in Range(keys) : next[k] # Get(state.map, k)
    IN IF c.shapeAssertionError # NoError
       THEN [error |-> c.shapeAssertionError, value |-> NoState, ran |-> <<>>]
       ELSE IF bad # {}
       THEN [error |-> [kind |-> "undefined", key |-> keys[Least(bad)]],
             value |-> NoState, ran |-> SubSeq(keys, 1, Least(bad))]
       ELSE [error |-> NoError,
             value |-> Returned(hasChanged, Obj(state.ref + 1, next), state),
             ran |-> keys]

NoResult == [n |-> 0, state |-> NoState, action |-> Untyped,
             out |-> [error |-> NoError, value |-> NoState, ran |-> <<>>]]

\* --------------------------------------------------------- applyMiddleware
\* (applyMiddleware.js lines 19-38 and compose)
\* A dispatch function is the sequence of the middlewares whose layers an
\* action given to it goes through, outermost first: the raw store.dispatch
\* is <<>>, and chain[k](next), the layer middleware k builds around next,
\* is <<k>> \o next.
RawDispatch == <<>>
Layer(middleware, next) == <<middleware>> \o next
\* the argument lists of applyMiddleware
MiddlewareLists == {<<>>, <<"A">>, <<"A", "B">>, <<"B", "A">>, <<"A", "B", "C">>}

\* (variant: funcs.reduce((a, b) => (...args) => b(a(...args))))
RECURSIVE ComposeLeftToRight(_, _)
ComposeLeftToRight(funcs, arg) ==
    IF Len(funcs) = 0 THEN arg
    ELSE IF Len(funcs) = 1 THEN Layer(funcs[1], arg)
    ELSE Layer(funcs[Len(funcs)],
               ComposeLeftToRight(SubSeq(funcs, 1, Len(funcs) - 1), arg))
\* compose(...funcs)(arg), lines 14-24 of compose: the identity for no
\* function, the function itself for one, and otherwise the reduce, whose
\* last step is (...args) => a(b(...args)) with b the last function and a
\* the composition of the others
RECURSIVE Compose(_, _)
Compose(funcs, arg) ==
    IF Len(funcs) = 0 THEN arg
    ELSE IF Len(funcs) = 1 THEN Layer(funcs[1], arg)
    ELSE Compose(SubSeq(funcs, 1, Len(funcs) - 1), Layer(funcs[Len(funcs)], arg))

\* the store the enhancer returns, lines 33-36: { ...store, dispatch }
RawStore == [m \in {"dispatch", "subscribe", "getState", "replaceReducer", "observable"}
               |-> "store"]
EnhancedStore == [RawStore EXCEPT !["dispatch"] = "dispatch"]

NotEnhanced == [phase |-> "none", middlewares |-> <<>>, chain |-> <<>>,
                dispatch |-> RawDispatch, store |-> RawStore]

\* ------------------------------------------------------ bindActionCreators
\* (src/unnamed/part_000)
\* the action creators of the application:
\*   inc    () => ({ type: 'INC' })
\*   typed  (t) => ({ type: t })
\* and "notFn", a value that is not a function
CreatorFns == {"inc", "typed"}
CreatorArgs == {"INC", "NOOP"}
Create(creator, arg) == IF creator = "typed" THEN Act(arg) ELSE Act("INC")
\* the dispatch functions given to bindActionCreators, and what each returns
\* for an action: a value of its own, which holds the action
DispatchFns == {"store.dispatch", "other"}
DispatchResult(dispatch, a) == [by |-> dispatch, of |-> a]
\* the values given as actionCreators: a function, an object with up to
\* two keys, null, and a number
CreatorKeys == {"k1", "k2"}
CreatorInputs ==
    {[type |-> "function", fn |-> f, entries |-> EmptyMap] : f \in CreatorFns}
    \cup {[type |-> "object", fn |-> "none", entries |-> m] :
             m \in UNION {[D -> CreatorFns \cup {"notFn"}] : D \in SUBSET CreatorKeys}}
    \cup {[type |-> t, fn |-> "none", entries |-> EmptyMap] : t \in {"null", "number"}}

\* (variant: the bound creator returns the action it made)
BoundReturnsAction(creator, dispatch, arg) ==
    [created |-> <<[creator |-> creator, arg |-> arg]>>,
     dispatched |-> <<[dispatch |-> dispatch, action |-> Create(creator, arg)]>>,
     returned |-> [by |-> "none", of |-> Create(creator, arg)]]
\* bindActionCreator(actionCreator, dispatch), lines 1-3: what a call of the
\* function it returns does, (...args) => dispatch(actionCreator(...args)):
\* the calls of the creator, the calls of dispatch and the value returned
BoundCall(creator, dispatch, arg) ==
    [created |-> <<[creator |-> creator, arg |-> arg]>>,
     dispatched |-> <<[dispatch |-> dispatch, action |-> Create(creator, arg)]>>,
     returned |-> DispatchResult(dispatch, Create(creator, arg))]

\* line 54: typeof actionCreator === 'function'
IsFunction(v) == v \in CreatorFns

\* bindActionCreators(actionCreators, dispatch), lines 37-59: a function for
\* a function, the error for what is neither a function nor an object (null
\* included), and otherwise an object with the bound function entries; fns
\* holds the creator each bound function calls, given the value passed as
\* actionCreators
NoInput == [type |-> "none", fn |-> "none", entries |-> EmptyMap]
NotBound == [kind |-> "none", fns |-> EmptyMap, dispatch |-> "none", given |-> NoInput]
BindActionCreatorsResult(actionCreators, dispatch) ==
    IF actionCreators.type = "function"
    THEN [kind |-> "function", fns |-> [k \in {"fn"} |-> actionCreators.fn],
          dispatch |-> dispatch, given |-> actionCreators]
    ELSE IF actionCreators.type # "object"
    THEN [kind |-> "error", fns |-> EmptyMap, dispatch |-> "none",
          given |-> actionCreators]
    ELSE [kind |-> "object",
          fns |-> [k \in {k \in DOMAIN actionCreators.entries :
                              IsFunction(actionCreators.entries[k])}
                     |-> actionCreators.entries[k]],
          dispatch |-> dispatch, given |-> actionCreators]

NoCalls == [n |-> 0, key |-> "none", arg |-> "none", created |-> <<>>,
            dispatched |-> <<>>,
            returned |-> [by |-> "none", of |-> Untyped]]

\* ------------------------------------------------------------------ arrays
\* Listener arrays are objects with identity: currentListeners, nextListeners
\* and a dispatch's local `listeners` hold references into `heap`.
ArrIds == 1..(MaxCalls + 2)

IndexOf(s, x) ==
    IF \E i \in 1..Len(s) : s[i] = x
    THEN (CHOOSE i \in 1..Len(s) : s[i] = x /\ \A j \in 1..(i - 1) : s[j] # x) - 1
    ELSE -1

\* s.splice(index, 1): a negative index counts from the end
Splice1(s, index) ==
    LET at == IF index < 0 THEN Len(s) + index + 1 ELSE index + 1
    IN IF at < 1 \/ at > Len(s) THEN s
       ELSE [k \in 1..(Len(s) - 1) |-> IF k < at THEN s[k] ELSE s[k + 1]]


VARIABLES
    constructed,       \* createStore has returned a store
    currentReducer,
    currentState,
    currentListeners,  \* reference (array id)
    nextListeners,     \* reference (array id)
    isDispatching,
    heap,              \* array id -> contents
    subs,              \* the closures subscribe has returned: listener, isSubscribed
    stack,             \* dispatch calls in progress, outermost first
    last,              \* the latest step, when it was a call that only answered or failed
    version,           \* reducer results committed so far (observation)
    nInc,              \* INC actions reduced so far (observation)
    nInit,             \* INIT actions reduced so far (observation)
    preloaded,         \* preloadedState given to createStore (observation)
    combined,          \* what the function combineReducers returned has captured
    result,            \* the latest direct call of that function (observation)
    enhanced,          \* applyMiddleware's enhancer: its arguments, chain and dispatch
    path,              \* the layers entered since the application's dispatch (observation)
    bound,             \* what bindActionCreators returned
    calls              \* the latest call of a bound action creator (observation)

vars == <<constructed, currentReducer, currentState, currentListeners,
          nextListeners, isDispatching, heap, subs, stack, last, version,
          nInc, nInit, preloaded, combined, result, enhanced, path, bound, calls>>

store == <<currentReducer, currentState, currentListeners, nextListeners,
           isDispatching, heap, subs, stack>>
ghosts == <<version, nInc, nInit, preloaded>>
\* what the store's own operations never touch
ext == <<combined, result, enhanced, path, bound, calls>>

\* One dispatch call.  action, pc, listeners and i are the call's own state
\* (its argument, where it is, its local `listeners` and loop index); the
\* other fields record what happened during the call:
\*   reducer  the reducer line 260 called
\*   wanted   the argument of replaceReducer, when the call is its dispatch
\*   replaced the reducer that was current when that replaceReducer began
\*   before   currentState when the call began
\*   after    the state this call's reducer returned
\*   atStart  the listeners in nextListeners when the call began
\*   snap     the contents of `listeners` when line 268 assigned it
\*   subsAt   per listener, its subscriptions not yet unsubscribed at that time
\*   called   the listeners this call has invoked, in order
\*   obs      version when each of those invocations ended
\*   ver      version produced by this call's reducer
\*   seen     listeners invoked (by any dispatch) since this call's reducer returned
\*   nested   a nested dispatch has committed a state during this call
\*   threw    a listener has thrown during this call (in it or nested in it)
\*   next     what this call has passed to observers' next, in order
\*   gone     the observers that had unsubscribed when the call began
\* A call of the observable's subscribe is a frame too: observer is its
\* argument and pc is "next" while observer.next runs.
\* So are a call of a middleware with middlewareAPI (pc "construct") and a
\* call of a middleware's layer (pc "layer"): layer is the middleware and
\* rest the layer's next.  via tells who called a layer or the raw dispatch:
\* the application, a layer's next or middlewareAPI.dispatch.
\*   ret      the value returned
NoFrame == [action |-> Untyped, pc |-> "none", listeners |-> 0, i |-> 0,
            reducer |-> "none", wanted |-> "none", replaced |-> "none",
            before |-> Undefined, after |-> Undefined, atStart |-> {}, snap |-> <<>>,
            subsAt |-> [f \in ListenerFns |-> 0], called |-> <<>>,
            obs |-> <<>>, ver |-> 0, seen |-> {}, nested |-> FALSE, threw |-> FALSE,
            next |-> <<>>, gone |-> {}, observer |-> "none",
            layer |-> "none", rest |-> <<>>, via |-> "none",
            ret |-> Untyped]

\* the subscriptions of listener f that have not been unsubscribed
ActiveCount(f) ==
    Cardinality({k \in 1..Len(subs) : subs[k].isSubscribed /\ subs[k].listener = f})

Outcome(op, err, val, guard) == [op |-> op, err |-> err, val |-> val, guard |-> guard]
Quiet == Outcome("none", "none", Undefined, FALSE)

Top == stack[Len(stack)]
Below == SubSeq(stack, 1, Len(stack) - 1)
\* the code that is running: the application, a reducer or a listener; a
\* dispatch that has just returned or thrown hands control back first
Running == IF stack = <<>> THEN "app" ELSE Top.pc
\* the calls made so far that changed the store or are about to; a
\* replaceReducer that reached its dispatch counts as two
Calls ==
    Len(subs) + Cardinality({k \in 1..Len(subs) : ~subs[k].isSubscribed})
      + (version - 1)
      + Cardinality({k \in 1..Len(stack) : stack[k].pc \in {"reduce", "next"}})
      + (IF nInit > 1 THEN nInit - 1 ELSE 0)
      + Cardinality({k \in 1..Len(stack) :
                        stack[k].pc = "reduce" /\ stack[k].wanted # "none"})
\* the listener the top dispatch is running, line 271
RunningListener == Top.called[Len(Top.called)]
\* observeState of an observer without next runs no code of the application
Idle ==
    /\ Running = "notify"
    /\ RunningListener \in Observers
    /\ ~HasNextMethod(RunningListener)
CanCall == constructed /\ Running \in {"app", "reduce", "notify", "next"} /\ ~Idle

\* line 260, currentReducer(currentState, action): whether the call throws,
\* and what it returns; "combination" is the function combineReducers
\* returned
Throws(r, s, a) == r = "combination" /\ Combination(combined, s, a).error # NoError
CallReducer(r, s, a) ==
    IF r = "combination" THEN Combination(combined, s, a).value ELSE Reduce(r, s, a)
\* a reducer of the application may throw at any call
MayThrow(r, s, a) == r # "combination" \/ Throws(r, s, a)

\* the preloaded states given to a store whose reducer is "combination"
CombinedPreloaded ==
    {NoState, Obj(1, [k \in {"a"} |-> 0]), Obj(1, [k \in {"a", ExtraKey} |-> 0])}
\* the states and actions the function is called with directly
WholeStates ==
    {NoState} \cup
    {Obj(1, m) : m \in UNION {[D -> {0, 1}] :
                     D \in {{}, {"a"}, {"a", "b"}, {"a", ExtraKey}}}}

Init ==
    /\ constructed = FALSE
    /\ currentReducer = "none"
    /\ currentState = Undefined
    /\ currentListeners = 1
    /\ nextListeners = 1
    /\ isDispatching = FALSE
    /\ heap = [id \in ArrIds |-> <<>>]
    /\ subs = <<>>
    /\ stack = <<>>
    /\ last = Quiet
    /\ version = 0
    /\ nInc = 0
    /\ nInit = 0
    /\ preloaded = Undefined
    /\ combined = NotCombined
    /\ result = NoResult
    /\ enhanced = NotEnhanced
    /\ path = <<>>
    /\ bound = NotBound
    /\ calls = NoCalls

\* createStore(reducer, preloadedState) without an enhancer, lines 105-113 and
\* the INIT dispatch of line 338 (no listener exists yet, so it is one step)
CreateStore(r, p) ==
    /\ UNCHANGED ext
    /\ ~constructed
    /\ IF r = "notFn"
       THEN /\ last' = Outcome("createStore", "notFn", Undefined, FALSE)
            /\ UNCHANGED <<constructed, store, ghosts>>
       ELSE IF Throws(r, p, Act(INIT))
       THEN /\ last' = Outcome("createStore", "reducerThrew", Undefined, FALSE)
            /\ UNCHANGED <<constructed, store, ghosts>>
       ELSE /\ constructed' = TRUE
            /\ currentReducer' = r
            /\ currentState' = CallReducer(r, p, Act(INIT))
            /\ currentListeners' = 1
            /\ nextListeners' = 1
            /\ isDispatching' = FALSE
            /\ heap' = [id \in ArrIds |-> <<>>]
            /\ subs' = <<>>
            /\ stack' = <<>>
            /\ version' = 1
            /\ nInit' = 1
            /\ preloaded' = p
            /\ last' = Quiet
            /\ UNCHANGED nInc

\* combineReducers(reducers), combineReducers.js lines 121-150; it returns
\* the function "combination" whatever the reducers are
CombineReducers(reducers) ==
    /\ ~constructed
    /\ combined' = Combined(reducers)
    /\ result' = NoResult
    /\ last' = Quiet
    /\ UNCHANGED <<constructed, store, ghosts, enhanced, path, bound, calls>>

\* what the function has captured after a call: a call assigns none of it
\* (variant: the error is raised once and forgotten)
ErrorForgotten(c) == [c EXCEPT !.shapeAssertionError = NoError]
AfterCall(c) == c

\* the application calls combination(state, action) itself
CallCombination(state, action) ==
    /\ combined.made
    /\ ~constructed
    /\ result.n < MaxCalls
    /\ result' = [n |-> result.n + 1, state |-> state, action |-> action,
                  out |-> Combination(combined, state, action)]
    /\ combined' = AfterCall(combined)
    /\ last' = Quiet
    /\ UNCHANGED <<constructed, store, ghosts, enhanced, path, bound, calls>>

\* the application calls bindActionCreators
BindActionCreators(actionCreators, dispatch) ==
    /\ bound' = BindActionCreatorsResult(actionCreators, dispatch)
    /\ calls' = NoCalls
    /\ last' = Quiet
    /\ UNCHANGED <<constructed, store, ghosts, combined, result, enhanced, path>>

\* the application calls a bound action creator: the function returned for
\* a function, or an entry of the object returned for an object
CallBound(key, arg) ==
    /\ bound.kind \in {"function", "object"}
    /\ key \in DOMAIN bound.fns
    /\ calls.n < MaxCalls
    /\ LET did == BoundCall(bound.fns[key], bound.dispatch, arg)
       IN calls' = [n |-> calls.n + 1, key |-> key, arg |-> arg,
                    created |-> did.created, dispatched |-> did.dispatched,
                    returned |-> did.returned]
    /\ last' = Quiet
    /\ UNCHANGED <<constructed, store, ghosts, combined, result, enhanced, path, bound>>

\* getState(), lines 126-128
\* there is no check in it: no call fails
\* (variant: a getState that checks the guard)
GetStateGuarded == IF isDispatching THEN "reentrant" ELSE "none"
GetStateError == "none"
GetStateResult == currentState
GetState ==
    /\ UNCHANGED ext
    /\ CanCall
    /\ last' = Outcome("getState", GetStateError, GetStateResult, isDispatching)
    /\ UNCHANGED <<constructed, store, ghosts>>

\* ---------------------------------------------------------------- helpers
\* Array references are only ever compared with each other, so after every
\* step the arrays are renumbered in the order currentListeners,
\* nextListeners, stack[1].listeners, ... first mention them, and arrays
\* nothing refers to any more are dropped.
Refs(cur, nxt, stk) == <<cur, nxt>> \o [k \in 1..Len(stk) |-> stk[k].listeners]
FirstAt(refs, id) == CHOOSE k \in 1..Len(refs) : refs[k] = id /\ \A j \in 1..(k - 1) : refs[j] # id
NewId(refs, id) ==
    IF id = 0 THEN 0
    ELSE Cardinality({refs[j] : j \in 1..FirstAt(refs, id)} \ {0})
Settle(cur, nxt, stk, h) ==
    LET refs == Refs(cur, nxt, stk)
        used == Range(refs) \ {0}
    IN /\ currentListeners' = NewId(refs, cur)
       /\ nextListeners' = NewId(refs, nxt)
       /\ stack' = [k \in 1..Len(stk) |-> [stk[k] EXCEPT !.listeners = NewId(refs, @)]]
       /\ heap' = [id \in ArrIds |->
                     IF \E o \in used : NewId(refs, o) = id
                     THEN h[CHOOSE o \in used : NewId(refs, o) = id]
                     ELSE <<>>]

FreshId ==
    LET free == ArrIds \ (Range(Refs(currentListeners, nextListeners, stack)) \ {0})
    IN CHOOSE id \in free : \A j \in free : id <= j

\* ensureCanMutateNextListeners(), lines 115-119: the heap and the value of
\* nextListeners after the call
\* (variant: no copy is made)
EnsureNoCopy == [heap |-> heap, next |-> nextListeners]
EnsureCanMutateNextListeners ==
    IF nextListeners = currentListeners
    THEN [heap |-> [heap EXCEPT ![FreshId] = heap[currentListeners]], next |-> FreshId]
    ELSE [heap |-> heap, next |-> nextListeners]

\* subscribe(listener), lines 174-186
Subscribe(l) ==
    /\ UNCHANGED ext
    /\ CanCall
    /\ IF l = "notFn"
       THEN /\ last' = Outcome("subscribe", "notFn", Undefined, isDispatching)
            /\ UNCHANGED <<constructed, store, ghosts>>
       ELSE /\ Calls < MaxCalls
            /\ LET e == EnsureCanMutateNextListeners
               IN Settle(currentListeners, e.next, stack,
                         [e.heap EXCEPT ![e.next] = Append(@, l)])
            /\ subs' = Append(subs, [listener |-> l, isSubscribed |-> TRUE])
            /\ last' = Quiet
            /\ UNCHANGED <<constructed, currentReducer, currentState,
                           isDispatching, ghosts>>

\* the unsubscribe closure of the k-th subscribe call, lines 187-197
\* (variant: the closure without its isSubscribed flag)
NeverUnsubscribed(k) == FALSE
AlreadyUnsubscribed(k) == ~subs[k].isSubscribed
Unsubscribe(k) ==
    /\ UNCHANGED ext
    /\ CanCall
    /\ k \in 1..Len(subs)
    /\ IF AlreadyUnsubscribed(k)
       THEN /\ last' = Outcome("unsubscribe", "noop", Undefined, isDispatching)
            /\ UNCHANGED <<constructed, store, ghosts>>
       ELSE /\ Calls < MaxCalls
            /\ subs' = [subs EXCEPT ![k].isSubscribed = FALSE]
            /\ LET e == EnsureCanMutateNextListeners
                   index == IndexOf(e.heap[e.next], subs[k].listener)
               IN Settle(currentListeners, e.next, stack,
                         [e.heap EXCEPT ![e.next] = Splice1(@, index)])
            /\ last' = Quiet
            /\ UNCHANGED <<constructed, currentReducer, currentState,
                           isDispatching, ghosts>>

\* dispatch(action), lines 238-254: the check that fails the call, or "none"
\* (variants: without the isDispatching check, without the action checks)
DispatchErrorNoGuard(a) ==
    IF ~IsPlainObject(a) THEN "notPlain"
    ELSE IF a.type = NoType THEN "noType"
    ELSE "none"
DispatchErrorNoValidation(a) ==
    IF isDispatching THEN "reentrant" ELSE "none"
DispatchError(a) ==
    IF ~IsPlainObject(a) THEN "notPlain"
    ELSE IF a.type = NoType THEN "noType"
    ELSE IF isDispatching THEN "reentrant"
    ELSE "none"

\* lines 256-260: a dispatch call that has passed the checks and called the
\* reducer
Entered(a, r) ==
    [NoFrame EXCEPT !.action = a, !.pc = "reduce", !.reducer = r,
                    !.before = currentState,
                    !.atStart = Range(heap[nextListeners]),
                    !.gone = {o \in Observers :
                                \E k \in 1..Len(subs) :
                                    subs[k].listener = o /\ ~subs[k].isSubscribed}]

\* dispatch(action), lines 237-260: the call fails a check, or the guard is
\* set and the reducer is entered
Dispatch(a) ==
    /\ UNCHANGED ext
    /\ CanCall
    /\ IF DispatchError(a) # "none"
       THEN /\ last' = Outcome("dispatch", DispatchError(a), Undefined, isDispatching)
            /\ UNCHANGED <<constructed, store, ghosts>>
       ELSE /\ Calls < MaxCalls
            /\ isDispatching' = TRUE
            /\ stack' = Append(stack, Entered(a, currentReducer))
            /\ last' = Quiet
            /\ UNCHANGED <<constructed, currentReducer, currentState, currentListeners,
                           nextListeners, heap, subs, version, nInc, nInit, preloaded>>

\* line 292: the reducer after replaceReducer(nextReducer)
\* (variant: the assignment is missing)
KeepsReducer(nextReducer) == currentReducer
ReducerAfterReplace(nextReducer) == nextReducer

\* replaceReducer(nextReducer), lines 287-294: the check, the assignment and
\* the call dispatch({ type: ActionTypes.INIT }), which fails its own check
\* of the guard (after the assignment) or enters the new reducer
ReplaceReducer(nextReducer) ==
    /\ UNCHANGED ext
    /\ CanCall
    /\ IF nextReducer = "notFn"
       THEN /\ last' = Outcome("replaceReducer", "notFn", Undefined, isDispatching)
            /\ UNCHANGED <<constructed, store, ghosts>>
       ELSE /\ currentReducer' = ReducerAfterReplace(nextReducer)
            /\ IF DispatchError(Act(INIT)) # "none"
               THEN /\ last' = Outcome("replaceReducer", DispatchError(Act(INIT)),
                                       Undefined, isDispatching)
                    /\ UNCHANGED <<isDispatching, stack>>
               ELSE /\ Calls + 1 < MaxCalls
                    /\ isDispatching' = TRUE
                    /\ stack' = Append(stack,
                          [Entered(Act(INIT), currentReducer') EXCEPT
                              !.wanted = nextReducer, !.replaced = currentReducer])
                    /\ last' = Quiet
            /\ UNCHANGED <<constructed, currentState, currentListeners,
                           nextListeners, heap, subs, ghosts>>

\* observable().subscribe(observer), lines 313-324: the check of the
\* argument, then observeState(), which calls observer.next with the state
\* if there is a next (reading next of null fails)
ObservableSubscribe(observer) ==
    /\ UNCHANGED ext
    /\ CanCall
    /\ \A k \in 1..Len(subs) : subs[k].listener # observer
    /\ \A k \in 1..Len(stack) : stack[k].observer # observer
    /\ IF observer \in NotObservers
       THEN /\ last' = Outcome("observableSubscribe", observer, Undefined, isDispatching)
            /\ UNCHANGED <<constructed, store, ghosts>>
       ELSE /\ Calls < MaxCalls
            /\ IF HasNextMethod(observer)
               THEN /\ stack' = Append(stack,
                          [NoFrame EXCEPT !.pc = "next", !.observer = observer,
                                          !.before = currentState,
                                          !.next = Delivery(observer, GetStateResult)])
                    /\ UNCHANGED <<currentListeners, nextListeners, heap, subs>>
               ELSE /\ LET e == EnsureCanMutateNextListeners
                       IN Settle(currentListeners, e.next,
                                 Append(stack, [NoFrame EXCEPT !.pc = "subscribed",
                                                               !.observer = observer,
                                                               !.before = currentState]),
                                 [e.heap EXCEPT ![e.next] = Append(@, observer)])
                    /\ subs' = Append(subs, [listener |-> observer, isSubscribed |-> TRUE])
            /\ last' = Quiet
            /\ UNCHANGED <<constructed, currentReducer, currentState,
                           isDispatching, ghosts>>

\* lines 325-326: observer.next has returned; observeState is subscribed as a
\* listener and its unsubscribe is returned
ObserverNextReturn ==
    /\ UNCHANGED ext
    /\ stack # <<>>
    /\ Top.pc = "next"
    /\ LET e == EnsureCanMutateNextListeners
       IN Settle(currentListeners, e.next,
                 Below \o <<[Top EXCEPT !.pc = "subscribed"]>>,
                 [e.heap EXCEPT ![e.next] = Append(@, Top.observer)])
    /\ subs' = Append(subs, [listener |-> Top.observer, isSubscribed |-> TRUE])
    /\ last' = Quiet
    /\ UNCHANGED <<constructed, currentReducer, currentState, isDispatching, ghosts>>

\* line 320: observer.next throws; subscribe ends before line 325
ObserverNextThrow ==
    /\ UNCHANGED ext
    /\ stack # <<>>
    /\ Top.pc = "next"
    /\ stack' = Below \o <<[Top EXCEPT !.pc = "nextThrew"]>>
    /\ last' = Quiet
    /\ UNCHANGED <<constructed, currentReducer, currentState, currentListeners,
                   nextListeners, isDispatching, heap, subs, ghosts>>

\* the actions given to the enhanced dispatch and passed on by layers: a
\* plain one and one that only a middleware can handle
LayerActions == {Act("INC"), NotAnObject}

\* fn(action) for a dispatch function fn: the raw store.dispatch (lines
\* 237-260), or the layer of fn's first middleware with the rest as its next
Call(fn, a, via, sofar) ==
    /\ Len(sofar) < MaxCalls
    /\ IF fn = RawDispatch
       THEN IF DispatchError(a) # "none"
            THEN /\ last' = Outcome("dispatch", DispatchError(a), Undefined, isDispatching)
                 /\ path' = Append(sofar, "rejected")
                 /\ UNCHANGED <<isDispatching, stack>>
            ELSE /\ Calls < MaxCalls
                 /\ isDispatching' = TRUE
                 /\ stack' = Append(stack, [Entered(a, currentReducer) EXCEPT !.via = via])
                 /\ path' = Append(sofar, "store")
                 /\ last' = Quiet
       ELSE /\ stack' = Append(stack, [NoFrame EXCEPT !.pc = "layer", !.action = a,
                                                       !.layer = fn[1], !.rest = Tail(fn),
                                                       !.via = via])
            /\ path' = Append(sofar, fn[1])
            /\ last' = Quiet
            /\ UNCHANGED isDispatching
    /\ UNCHANGED <<constructed, currentReducer, currentState, currentListeners,
                   nextListeners, heap, subs, ghosts, combined, result, bound, calls>>

\* middleware(middlewareAPI), line 29, is running
Constructing(middleware) ==
    [NoFrame EXCEPT !.pc = "construct", !.layer = middleware]

\* line 22: let dispatch = store.dispatch, the value of the variable while
\* the middlewares are called
\* (variant: the variable holds the composed chain from the start)
ComposedFromTheStart(middlewares) == Compose(middlewares, RawDispatch)
InitialDispatch(middlewares) == RawDispatch

\* applyMiddleware(...middlewares)(createStore)(reducer, preloadedState)
\* after its createStore call (line 21): lines 22-29 up to the call of the
\* first middleware, and lines 31-36 when there is none
ApplyMiddleware(middlewares) ==
    /\ constructed
    /\ enhanced.phase = "none"
    /\ stack = <<>>
    /\ subs = <<>>
    /\ version = 1
    /\ IF middlewares = <<>>
       THEN /\ enhanced' = [phase |-> "done", middlewares |-> middlewares,
                            chain |-> <<>>, dispatch |-> Compose(<<>>, RawDispatch),
                            store |-> EnhancedStore]
            /\ UNCHANGED stack
       ELSE /\ enhanced' = [phase |-> "building", middlewares |-> middlewares,
                            chain |-> <<>>, dispatch |-> InitialDispatch(middlewares),
                            store |-> RawStore]
            /\ stack' = <<Constructing(middlewares[1])>>
    /\ last' = Quiet
    /\ UNCHANGED <<constructed, currentReducer, currentState, currentListeners,
                   nextListeners, isDispatching, heap, subs, ghosts, combined, result,
                   path, bound, calls>>

\* lines 29-36: a middleware has returned its layer builder; the next
\* middleware is called, or the chain is composed around store.dispatch,
\* assigned to dispatch and the enhanced store returned
MiddlewareReturn ==
    /\ stack # <<>>
    /\ Top.pc = "construct"
    /\ LET chain == Append(enhanced.chain, Top.layer)
       IN IF Len(chain) < Len(enhanced.middlewares)
          THEN /\ enhanced' = [enhanced EXCEPT !.chain = chain]
               /\ stack' = Below \o <<Constructing(enhanced.middlewares[Len(chain) + 1])>>
          ELSE /\ enhanced' = [enhanced EXCEPT !.chain = chain, !.phase = "done",
                                               !.dispatch = Compose(chain, RawDispatch),
                                               !.store = EnhancedStore]
               /\ stack' = Below
    /\ last' = Quiet
    /\ UNCHANGED <<constructed, currentReducer, currentState, currentListeners,
                   nextListeners, isDispatching, heap, subs, ghosts, combined, result,
                   path, bound, calls>>

\* the application calls the dispatch of the enhanced store
EnhancedDispatch(a) ==
    /\ enhanced.phase = "done"
    /\ stack = <<>>
    /\ Call(enhanced.dispatch, a, "app", <<>>)
    /\ UNCHANGED enhanced

\* a layer calls its next, the argument of chain[k]
LayerNext(a) ==
    /\ stack # <<>>
    /\ Top.pc = "layer"
    /\ Call(Top.rest, a, "next", path)
    /\ UNCHANGED enhanced

\* line 27, middlewareAPI.dispatch: (action) => dispatch(action), with the
\* value the variable dispatch has when the call is made
\* (variant: the store's dispatch, the value it had when the object was made)
ApiTargetBoundEarly == RawDispatch
ApiTarget == enhanced.dispatch

\* a middleware, in its layer or while it is called with middlewareAPI,
\* calls middlewareAPI.dispatch
ApiDispatch(a) ==
    /\ stack # <<>>
    /\ Top.pc \in {"layer", "construct"}
    /\ Call(ApiTarget, a, "api", path)
    /\ UNCHANGED enhanced

\* a layer returns to its caller (or throws to it)
LayerReturn ==
    /\ stack # <<>>
    /\ Top.pc = "layer"
    /\ stack' = Below
    /\ last' = Quiet
    /\ UNCHANGED <<constructed, currentReducer, currentState, currentListeners,
                   nextListeners, isDispatching, heap, subs, ghosts, ext>>

\* a listener is invoked: every dispatch that is notifying has seen it run
Saw(fr, f) == IF fr.pc = "notify" THEN [fr EXCEPT !.seen = @ \cup {f}] ELSE fr

\* what dispatch returns, line 274
\* (variant: dispatch returns nothing)
ReturnsNothing(fr) == Untyped
ReturnValue(fr) == fr.action

\* the guard after the reducer call, lines 261-263
\* (variant: without the `finally`)
GuardStaysSet == isDispatching
GuardAfterReducer == FALSE

\* lines 260-272: the reducer returns; the state is committed, the guard is
\* cleared, the snapshot is taken and the first listener (if any) is invoked
ReducerReturn ==
    /\ UNCHANGED ext
    /\ stack # <<>>
    /\ Top.pc = "reduce"
    /\ ~Throws(Top.reducer, currentState, Top.action)
    /\ currentState' = CallReducer(Top.reducer, currentState, Top.action)
    /\ isDispatching' = GuardAfterReducer
    /\ version' = version + 1
    /\ nInc' = IF Top.action.type = "INC" THEN nInc + 1 ELSE nInc
    /\ nInit' = IF Top.action.type = INIT THEN nInit + 1 ELSE nInit
    /\ LET snap == heap[nextListeners]
           outer == [k \in 1..Len(Below) |-> [Below[k] EXCEPT !.nested = TRUE]]
           mine == [Top EXCEPT !.listeners = nextListeners, !.snap = snap,
                               !.after = currentState',
                               !.subsAt = [f \in ListenerFns |-> ActiveCount(f)],
                               !.ver = version + 1]
       IN IF snap = <<>>
          THEN Settle(nextListeners, nextListeners,
                      outer \o <<[mine EXCEPT !.pc = "returned", !.ret = ReturnValue(Top)]>>,
                      heap)
          ELSE Settle(nextListeners, nextListeners,
                      [k \in 1..Len(outer) |-> Saw(outer[k], snap[1])]
                        \o <<[mine EXCEPT !.pc = "notify", !.i = 1,
                                          !.called = <<snap[1]>>, !.seen = {snap[1]},
                                          !.next = Delivery(snap[1], currentState')]>>,
                      heap)
    /\ last' = Quiet
    /\ UNCHANGED <<constructed, currentReducer, subs, preloaded>>

\* lines 256-263: the reducer throws; `finally` clears the guard and the
\* exception leaves dispatch
ReducerThrow ==
    /\ UNCHANGED ext
    /\ stack # <<>>
    /\ Top.pc = "reduce"
    /\ MayThrow(Top.reducer, currentState, Top.action)
    /\ isDispatching' = GuardAfterReducer
    /\ stack' = Below \o <<[Top EXCEPT !.pc = "reducerThrew"]>>
    /\ last' = Quiet
    /\ UNCHANGED <<constructed, currentReducer, currentState, currentListeners,
                   nextListeners, heap, subs, ghosts>>

\* the loop condition of line 269, i < listeners.length, after i++
\* (variant: i < listeners.length - 1)
StopsOneEarly(fr) == fr.i + 1 < Len(heap[fr.listeners])
HasNext(fr) == fr.i < Len(heap[fr.listeners])

\* lines 269-274: the running listener returns; the loop invokes the next
\* listener of `listeners`, or dispatch returns the action
ListenerReturn ==
    /\ UNCHANGED ext
    /\ stack # <<>>
    /\ Top.pc = "notify"
    /\ LET arr == heap[Top.listeners]
           mine == [Top EXCEPT !.obs = Append(@, version)]
       IN IF HasNext(Top)
          THEN stack' = [k \in 1..Len(Below) |-> Saw(Below[k], arr[Top.i + 1])]
                          \o <<[mine EXCEPT !.i = @ + 1,
                                            !.called = Append(@, arr[Top.i + 1]),
                                            !.seen = @ \cup {arr[Top.i + 1]},
                                            !.next = @ \o Delivery(arr[Top.i + 1],
                                                                   currentState)]>>
          ELSE stack' = Below \o <<[mine EXCEPT !.pc = "returned",
                                                !.ret = ReturnValue(Top)]>>
    /\ last' = Quiet
    /\ UNCHANGED <<constructed, currentReducer, currentState, currentListeners,
                   nextListeners, isDispatching, heap, subs, ghosts>>

\* lines 269-272: nothing is around the listener call, so the state a
\* throwing listener leaves behind is the committed one
\* (variant: the state is put back to what it was before the dispatch)
StateRolledBack(fr) == fr.before
StateAfterListenerThrow(fr) == currentState

\* line 271: the running listener throws; nothing in dispatch catches it
ListenerThrow ==
    /\ UNCHANGED ext
    /\ stack # <<>>
    /\ Top.pc = "notify"
    /\ ~Idle
    /\ currentState' = StateAfterListenerThrow(Top)
    /\ stack' = [k \in 1..Len(Below) |-> [Below[k] EXCEPT !.threw = TRUE]]
                   \o <<[Top EXCEPT !.pc = "listenerThrew", !.threw = TRUE]>>
    /\ last' = Quiet
    /\ UNCHANGED <<constructed, currentReducer, currentListeners,
                   nextListeners, isDispatching, heap, subs, ghosts>>

\* control is back in the caller of a dispatch that returned or threw (a
\* caller that is a listener or a reducer may catch the exception, or throw
\* in its turn: ListenerThrow, ReducerThrow)
Resume ==
    /\ UNCHANGED ext
    /\ stack # <<>>
    /\ Top.pc \in {"returned", "reducerThrew", "listenerThrew", "subscribed",
                   "nextThrew"}
    /\ Settle(currentListeners, nextListeners, Below, heap)
    /\ last' = Quiet
    /\ UNCHANGED <<constructed, currentReducer, currentState, isDispatching, subs, ghosts>>

\* The store's calls and their outcomes: every kind of action, state and
\* reducer outcome, with one listener function.
Next ==
    \/ \E r \in ReducerFns \cup {"notFn"}, p \in PreloadedStates : CreateStore(r, p)
    \/ GetState
    \/ \E l \in {"f", "notFn"} : Subscribe(l)
    \/ \E a \in Actions : Dispatch(a)
    \/ ReducerReturn
    \/ ReducerThrow
    \/ ListenerReturn
    \/ Resume

Spec == Init /\ [][Next]_vars

\* The listener lists: subscribe and unsubscribe at any point, with two
\* listener functions, and listeners that throw.
NextListeners ==
    \/ \E r \in ReducerFns : CreateStore(r, Undefined)
    \/ \E l \in ListenerFns : Subscribe(l)
    \/ \E k \in 1..MaxCalls : Unsubscribe(k)
    \/ Dispatch(Act("INC"))
    \/ ReducerReturn
    \/ ListenerReturn
    \/ ListenerThrow
    \/ Resume

SpecListeners == Init /\ [][NextListeners]_vars

\* Replacing the reducer, from the application, from a listener and from a
\* reducer, with reducers that may throw.
NextReplace ==
    \/ \E r \in ReducerFns : CreateStore(r, Undefined)
    \/ \E r \in NextReducerFns \cup {"notFn"} : ReplaceReducer(r)
    \/ Subscribe("f")
    \/ Dispatch(Act("INC"))
    \/ ReducerReturn
    \/ ReducerThrow
    \/ ListenerReturn
    \/ Resume

SpecReplace == Init /\ [][NextReplace]_vars

\* The observable: observers subscribing (each once) and unsubscribing at
\* any point, with listeners that throw.
NextObservable ==
    \/ \E r \in ReducerFns : CreateStore(r, Undefined)
    \/ \E o \in Observers \cup NotObservers : ObservableSubscribe(o)
    \/ ObserverNextReturn
    \/ ObserverNextThrow
    \/ \E k \in 1..MaxCalls : Unsubscribe(k)
    \/ Dispatch(Act("INC"))
    \/ ReducerReturn
    \/ ListenerReturn
    \/ ListenerThrow
    \/ Resume

SpecObservable == Init /\ [][NextObservable]_vars

\* combineReducers: the function it returns, called directly or made the
\* reducer of a store.
NextCombine ==
    \/ \E reducers \in ReducerMaps : CombineReducers(reducers)
    \/ \E state \in WholeStates, a \in ValidActions \cup {Act(INIT)} :
          CallCombination(state, a)
    \/ \E p \in CombinedPreloaded :
          combined.made /\ result = NoResult /\ CreateStore("combination", p)
    \/ \E a \in ValidActions : Dispatch(a)
    \/ ReducerReturn
    \/ ReducerThrow
    \/ Resume

SpecCombine == Init /\ [][NextCombine]_vars

\* applyMiddleware: the enhancer builds the store, the application
\* dispatches, and each layer passes actions on, dispatches through
\* middlewareAPI or returns.
NextMiddleware ==
    \/ \E r \in ReducerFns : CreateStore(r, Undefined)
    \/ \E middlewares \in MiddlewareLists : ApplyMiddleware(middlewares)
    \/ MiddlewareReturn
    \/ \E a \in LayerActions : EnhancedDispatch(a)
    \/ \E a \in LayerActions : LayerNext(a)
    \/ \E a \in LayerActions : ApiDispatch(a)
    \/ LayerReturn
    \/ ReducerReturn
    \/ Resume

SpecMiddleware == Init /\ [][NextMiddleware]_vars

\* bindActionCreators and the functions it returns.
NextBind ==
    \/ \E input \in CreatorInputs, d \in DispatchFns : BindActionCreators(input, d)
    \/ \E key \in CreatorKeys \cup {"fn"}, arg \in CreatorArgs : CallBound(key, arg)

SpecBind == Init /\ [][NextBind]_vars

\* ------------------------------------------------------------------ claims
Base(p) == IF p = Undefined THEN 0 ELSE p
Notifying(fr) == fr.pc \in {"notify", "returned", "listenerThrew"}

\* C1: construction reduces INIT exactly once, and the state is always the
\* counter reducer folded over INIT and the actions dispatched so far: the
\* preloaded state (0 when undefined) plus the number of INC actions reduced;
\* three INC dispatches on an empty store give 3.
C1_StateIsFold ==
    constructed =>
        /\ nInit = 1
        /\ currentState = Base(preloaded) + nInc
        /\ version >= 1 + nInc
C1_ThreeIncrements ==
    /\ constructed
    /\ stack = <<>>
    /\ preloaded = Undefined
    /\ nInc = 3
    /\ currentState = 3

\* C2 as stated: getState() returns currentState and fails whenever it is
\* called while a reducer is running.
C2_GetStateFailsInReducer ==
    last.op = "getState" =>
        /\ last.guard => last.err # "none"
        /\ ~last.guard => (last.err = "none" /\ last.val = currentState)
\* C2 as amended: getState() returns currentState and never fails, also
\* when it is called while a reducer is running.
C2_GetStateNeverFails ==
    last.op = "getState" => (last.err = "none" /\ last.val = currentState)
C2_ReadInReducer ==
    /\ last.op = "getState"
    /\ last.guard
    /\ isDispatching
    /\ last.err = "none"
    /\ last.val = currentState

\* C3: a dispatch of a valid action made while a reducer is running fails
\* with the reentrancy error; no reducer is entered, currentState and the
\* listener lists stay as they are and no listener is invoked.
C3_ReentrantDispatchFails ==
    [][\A a \in ValidActions :
          (isDispatching /\ Dispatch(a)) =>
              /\ last'.op = "dispatch"
              /\ last'.err = "reentrant"
              /\ UNCHANGED <<store, ghosts>>]_vars
C3_RejectedInReducer ==
    /\ last.op = "dispatch"
    /\ last.err = "reentrant"
    /\ Running = "reduce"
    /\ heap[nextListeners] # <<>>

\* C4: the guard is set exactly while a reducer is running; a dispatch whose
\* reducer threw leaves the guard clear, currentState as it was and no
\* listener invoked, and a valid dispatch then passes the checks; listeners
\* run with the guard clear, so only code running inside a reducer ever gets
\* the reentrancy error.
C4_GuardOnlyInReducer ==
    /\ isDispatching <=> Running = "reduce"
    /\ \A k \in 1..Len(stack) :
          /\ stack[k].pc = "notify" => (k < Len(stack) \/ ~isDispatching)
          /\ stack[k].pc = "reducerThrew" =>
                /\ ~isDispatching
                /\ currentState = stack[k].before
                /\ stack[k].called = <<>>
                /\ \A a \in ValidActions : DispatchError(a) = "none"
    /\ last.err = "reentrant" => Running = "reduce"
C4_NestedReducerThrew ==
    /\ Len(stack) = 2
    /\ stack[1].pc = "notify"
    /\ stack[2].pc = "reducerThrew"
    /\ ~isDispatching

\* C5: a dispatch of a value that is not a plain object, or of an object
\* without a type, fails with the validation error of its kind; no reducer is
\* entered, currentState and both listener lists stay as they are and no
\* listener is invoked.
C5_InvalidActionRejected ==
    [][/\ Dispatch(NotAnObject) =>
            (last'.err = "notPlain" /\ UNCHANGED <<store, ghosts>>)
       /\ Dispatch(Untyped) =>
            (last'.err = "noType" /\ UNCHANGED <<store, ghosts>>)]_vars
C5_NumberRejected ==
    /\ last.op = "dispatch"
    /\ last.err = "notPlain"
    /\ heap[nextListeners] # <<>>
    /\ stack = <<>>

\* C6: a dispatch whose reducer returned has taken as its snapshot the list
\* in force when the reducer returned (per listener, as many entries as it
\* had subscriptions then), and invokes the listeners of that snapshot in
\* list order, each entry once: while it notifies, the listeners invoked are
\* the first i entries, and when it returns they are the whole snapshot.
C6_SnapshotNotifiedInOrder ==
    \A k \in 1..Len(stack) :
        LET fr == stack[k]
        IN /\ Notifying(fr) => \A f \in ListenerFns : Count(fr.snap, f) = fr.subsAt[f]
           /\ fr.pc \in {"notify", "listenerThrew"} =>
                 /\ fr.i \in 1..Len(fr.snap)
                 /\ fr.called = SubSeq(fr.snap, 1, fr.i)
           /\ fr.pc = "returned" => fr.called = fr.snap
C6_SubscribedInReducerNotified ==
    /\ stack # <<>>
    /\ Top.pc = "returned"
    /\ Len(Top.snap) = 2
    /\ Range(Top.snap) # Top.atStart
    /\ Top.called = Top.snap

\* C7: the list a dispatch is iterating never changes while it notifies,
\* whatever is subscribed or unsubscribed meanwhile: the dispatch invokes
\* each listener as often as it was subscribed when the snapshot was taken.
\* The changes are in nextListeners, which always holds exactly the
\* subscriptions in force, and which the next dispatch, nested or not, takes.
C7_CopyOnWrite ==
    /\ \A f \in ListenerFns : Count(heap[nextListeners], f) = ActiveCount(f)
    /\ \A k \in 1..Len(stack) :
          LET fr == stack[k]
          IN /\ fr.pc = "notify" => heap[fr.listeners] = fr.snap
             /\ fr.pc = "returned" =>
                   \A f \in ListenerFns : Count(fr.called, f) = fr.subsAt[f]
             /\ (k < Len(stack) /\ Notifying(stack[k + 1])) =>
                   \A f \in ListenerFns :
                       Count(stack[k + 1].snap, f) = stack[k + 1].subsAt[f]
C7_NestedTookNewerSnapshot ==
    /\ Len(stack) = 2
    /\ stack[1].pc = "notify"
    /\ Top.pc = "returned"
    /\ heap[stack[1].listeners] = stack[1].snap
    /\ \E f \in Range(stack[1].snap) : f \notin Range(Top.snap)

C10_ListMatchesSubscriptions ==
    /\ \A f \in ListenerFns : Count(heap[nextListeners], f) = ActiveCount(f)
    /\ \A k \in 1..Len(stack) :
          stack[k].pc = "returned" =>
              \A f \in ListenerFns : Count(stack[k].called, f) = stack[k].subsAt[f]
C10_UnsubscribeIdempotent ==
    /\ C10_ListMatchesSubscriptions
    /\ [][/\ C10_ListMatchesSubscriptions'
          /\ \A k \in 1..Len(subs) :
                Unsubscribe(k) =>
                    IF subs[k].isSubscribed
                    THEN \A f \in ListenerFns :
                            Count(heap'[nextListeners'], f) =
                              Count(heap[nextListeners], f)
                                - (IF f = subs[k].listener THEN 1 ELSE 0)
                    ELSE UNCHANGED <<store, ghosts>>]_vars
C10_TwiceSubscribedOnceRemoved ==
    /\ last.op = "unsubscribe"
    /\ last.err = "noop"
    /\ Cardinality({k \in 1..Len(subs) : subs[k].listener = "f"}) = 2
    /\ ActiveCount("f") = 1
    /\ ActiveCount("g") = 1
    /\ Count(heap[nextListeners], "f") = 1
    /\ Count(heap[nextListeners], "g") = 1

\* C11: when a listener throws, the exception leaves the dispatch that was
\* notifying at once: that dispatch is over with the listeners of its
\* snapshot invoked up to the throwing one and no further, control goes to
\* its caller, and the state its reducer computed stays committed (every
\* commit adds one to the counter, and none is undone).
C11_ListenerThrowAborts ==
    /\ [](\A k \in 1..Len(stack) :
            LET fr == stack[k]
            IN fr.pc = "listenerThrew" =>
                  /\ k = Len(stack)
                  /\ fr.i \in 1..Len(fr.snap)
                  /\ fr.called = SubSeq(fr.snap, 1, fr.i)
                  /\ version >= fr.ver
                  /\ currentState = fr.before + 1 + (version - fr.ver))
    /\ [][ListenerThrow =>
             /\ currentState' = currentState
             /\ Len(stack') = Len(stack)
             /\ stack'[Len(stack)].pc = "listenerThrew"
             /\ stack'[Len(stack)].called = Top.called
             /\ \A k \in 1..Len(Below) : stack'[k].pc = "notify"]_vars
C11_FirstOfTwoThrew ==
    /\ stack # <<>>
    /\ Top.pc = "listenerThrew"
    /\ Len(Top.snap) = 2
    /\ Top.called = <<Top.snap[1]>>
    /\ ~Top.nested
    /\ currentState = Top.before + 1

\* C12: a dispatch that returns returns the action it was given, whatever
\* other actions listeners dispatched while it was notifying.
C12_ReturnsItsAction ==
    \A k \in 1..Len(stack) :
        stack[k].pc = "returned" => stack[k].ret = stack[k].action
C12_ReturnedAfterNestedOther ==
    /\ Len(stack) = 1
    /\ Top.pc = "returned"
    /\ Top.nested
    /\ Top.action = Act("NOOP")
    /\ Top.ret = Act("NOOP")
    /\ preloaded = Undefined
    /\ version = 3
    /\ nInc = 1

\* C13: replaceReducer with a callable argument makes it the current reducer
\* and dispatches INIT: the reducer that dispatch calls is the new one, the
\* state it commits is the new reducer applied to the previous state and
\* INIT, and when it returns it has notified its whole snapshot, each listener
\* once per subscription.  Every dispatch calls the reducer that is current
\* when it begins, and the current reducer changes only in a replaceReducer
\* call with a callable argument; a call with a non-callable argument fails
\* and changes nothing.
C13_ReplaceSwapsAndInits ==
    /\ [](\A k \in 1..Len(stack) :
            LET fr == stack[k]
            IN /\ fr.wanted # "none" =>
                     /\ fr.action = Act(INIT)
                     /\ fr.reducer = fr.wanted
                     /\ Notifying(fr) =>
                           fr.after = Reduce(fr.wanted, fr.before, Act(INIT))
                     /\ fr.pc = "returned" =>
                           /\ fr.called = fr.snap
                           /\ \A f \in ListenerFns : Count(fr.called, f) = fr.subsAt[f]
               /\ Notifying(fr) => fr.after = Reduce(fr.reducer, fr.before, fr.action)
               /\ (fr.pc = "returned" /\ ~fr.nested) => currentState = fr.after)
    /\ [][/\ \A r \in NextReducerFns :
                ReplaceReducer(r) =>
                    /\ currentReducer' = r
                    /\ stack' # stack =>
                          /\ Len(stack') = Len(stack) + 1
                          /\ stack'[Len(stack')].action = Act(INIT)
                          /\ stack'[Len(stack')].reducer = r
          /\ ReplaceReducer("notFn") =>
                (last'.err = "notFn" /\ UNCHANGED <<store, ghosts>>)
          /\ (Dispatch(Act("INC")) /\ stack' # stack) =>
                stack'[Len(stack')].reducer = currentReducer
          /\ (constructed /\ currentReducer' # currentReducer) =>
                \E r \in NextReducerFns : ReplaceReducer(r)]_vars
C13_ReplacedAndNotified ==
    /\ stack # <<>>
    /\ Top.pc = "returned"
    /\ Top.wanted = "evens"
    /\ Top.before = 1
    /\ currentState = 2
    /\ currentReducer = "evens"
    /\ Top.called = <<"f">>

\* the values a call has passed to the next of an observer
Delivered(fr, o) == [j \in 1..Len(SelectSeq(fr.next, LAMBDA d : d.to = o)) |->
                        SelectSeq(fr.next, LAMBDA d : d.to = o)[j].value]

\* C14: a subscribe call of the observable passes the state current at the
\* call to the observer's next, once, before it subscribes; every dispatch
\* that returns has passed the state to the next of each observer in its
\* snapshot once, every value passed being the state current at that moment;
\* a dispatch that began after an observer's unsubscribe passes it nothing;
\* an observer without next is subscribed without an error and is never
\* passed anything.
C14_ObserverDeliveries ==
    /\ [](\A k \in 1..Len(stack) :
            LET fr == stack[k]
            IN /\ fr.pc \in {"next", "subscribed"} =>
                     /\ Delivered(fr, "hasNext") =
                           (IF fr.observer = "hasNext" THEN <<fr.before>> ELSE <<>>)
                     /\ fr.pc = "next" => \A f \in Range(heap[nextListeners]) : f # fr.observer
                     /\ fr.pc = "subscribed" => Count(heap[nextListeners], fr.observer) = 1
               /\ fr.pc = "returned" =>
                     /\ Len(Delivered(fr, "hasNext")) = Count(fr.snap, "hasNext")
                     /\ ("hasNext" \in fr.atStart /\ ActiveCount("hasNext") = 1) =>
                           Len(Delivered(fr, "hasNext")) = 1
                     /\ ~fr.nested => Range(Delivered(fr, "hasNext")) \subseteq {fr.after}
               /\ Notifying(fr) =>
                     \A j \in 1..Len(fr.next) :
                         fr.after <= fr.next[j].value /\ fr.next[j].value <= currentState
               /\ \A o \in fr.gone : Delivered(fr, o) = <<>>
               /\ Delivered(fr, "noNext") = <<>>)
    /\ [][/\ \A k \in 1..Len(stack') :
                LET old == IF k <= Len(stack) THEN Len(stack[k].next) ELSE 0
                    new == stack'[k].next
                IN Len(new) > old =>
                      /\ Len(new) = old + 1
                      /\ new[Len(new)] = [to |-> "hasNext", value |-> currentState']
          /\ ObservableSubscribe("noNext") =>
                /\ last' = Quiet
                /\ stack'[Len(stack')].pc = "subscribed"
                /\ Count(heap'[nextListeners'], "noNext") = 1]_vars
C14_DeliveredOnceAfterDispatch ==
    /\ stack # <<>>
    /\ Top.pc = "returned"
    /\ Range(Top.snap) = {"hasNext", "noNext"}
    /\ Top.next = <<[to |-> "hasNext", value |-> 1]>>
    /\ currentState = 1

\* the keys whose reducers answer undefined to one of the probes
Offending(final) ==
    {k \in DOMAIN final :
        \/ Sub(final[k], Undefined, Act(INIT)) = Undefined
        \/ Sub(final[k], Undefined, Act(PROBE)) = Undefined}

\* C15: a call of the composed reducer with a whole state S and an action
\* throws exactly when a probe failed or a surviving reducer returns
\* undefined; otherwise, if every surviving reducer returns the part it was
\* given, the call returns S itself, the same object, and if not it returns
\* a new object whose keys are the surviving keys, each with the value its
\* reducer returned.
C15_SameObjectUnlessChanged ==
    (result.n > 0 /\ result.state # NoState) =>
        LET final == combined.finalReducers
            S == result.state
            new == [k \in DOMAIN final |-> Sub(final[k], Get(S.map, k), result.action)]
        IN /\ result.out.error # NoError <=>
                 (Offending(final) # {} \/ \E k \in DOMAIN final : new[k] = Undefined)
           /\ result.out.error = NoError =>
                 IF \A k \in DOMAIN final : new[k] = Get(S.map, k)
                 THEN result.out.value = S
                 ELSE /\ result.out.value.ref # S.ref
                      /\ result.out.value.map = new
C15_NoopReturnedSameObject ==
    /\ result.n > 0
    /\ DOMAIN combined.finalReducers = {"a", "b"}
    /\ DOMAIN result.state.map = {"a", "b"}
    /\ result.action = Act("NOOP")
    /\ result.out.error = NoError
    /\ result.out.value = result.state

\* C16: combineReducers returns a function whatever the reducers do.  When
\* a surviving reducer answers undefined to (undefined, INIT) or to
\* (undefined, an unknown type), the function has kept an error naming such
\* a key (none otherwise), every call of it, the first and the later ones,
\* throws that error with no reducer called, and createStore with it fails.
C16_ShapeErrorKept ==
    /\ [](combined.made =>
            LET final == combined.finalReducers
                kept == combined.shapeAssertionError
            IN /\ kept = NoError <=> Offending(final) = {}
               /\ Offending(final) # {} =>
                     /\ kept.key \in Offending(final)
                     /\ \A i \in 1..Len(FinalKeys(final)) :
                           FinalKeys(final)[i] \in Offending(final) =>
                               \E j \in 1..i : FinalKeys(final)[j] = kept.key
                     /\ result.n > 0 =>
                           (result.out.error = kept /\ result.out.ran = <<>>)
                     /\ ~constructed)
    /\ [][/\ \A reducers \in ReducerMaps :
                CombineReducers(reducers) => (combined'.made /\ last' = Quiet)
          /\ \A p \in CombinedPreloaded :
                (Offending(combined.finalReducers) # {} /\ CreateStore("combination", p)) =>
                    (last'.op = "createStore" /\ last'.err = "reducerThrew")]_vars
C16_RaisedAgain ==
    /\ result.n = 2
    /\ combined.finalReducers = [k \in {"a", "b"} |-> IF k = "a" THEN "counter" ELSE "initOnly"]
    /\ result.out.error = [kind |-> "probe", key |-> "b"]
    /\ result.out.ran = <<>>

\* C20 as stated, for a composed reducer with a surviving reducer: the state
\* of a store whose reducer it is is always a mapping whose keys are exactly
\* the surviving reducer keys, whatever keys the preloaded state has.
C20_KeysAreReducerKeys ==
    (/\ constructed
     /\ currentReducer = "combination"
     /\ DOMAIN combined.finalReducers # {}) =>
        DOMAIN currentState.map = DOMAIN combined.finalReducers

\* C17: once the enhanced store is returned, its dispatch is the layer of
\* the first middleware, whose next is the layer of the second, and so on,
\* the next of the last being store.dispatch (which the enhanced dispatch is
\* when there is no middleware); its other members are the raw store's.  So
\* the application's action enters the first layer, a layer entered through
\* next is the one to the right of its caller, and the raw dispatch runs only
\* with every layer, left to right, below it, each called by the next of the
\* one before.
C17_LayersInOrder ==
    enhanced.phase = "done" =>
        LET mws == enhanced.middlewares
            n == Len(mws)
            IsRaw(fr) == fr.via # "none" /\ fr.pc # "layer"
        IN /\ Len(enhanced.dispatch) = n
           /\ \A i \in 1..n : enhanced.dispatch[i] = mws[i]
           /\ n = 0 => enhanced.dispatch = RawDispatch
           /\ \A m \in {"getState", "subscribe", "replaceReducer", "observable"} :
                 enhanced.store[m] = RawStore[m]
           /\ \A q \in 1..Len(stack) :
                 LET fr == stack[q]
                 IN /\ fr.via = "app" =>
                          /\ q = 1
                          /\ IF n = 0 THEN IsRaw(fr)
                             ELSE fr.pc = "layer" /\ fr.layer = mws[1]
                    /\ fr.via = "next" =>
                          /\ q > 1
                          /\ stack[q - 1].pc = "layer"
                          /\ \E i \in 1..n :
                                /\ stack[q - 1].layer = mws[i]
                                /\ IF i < n
                                   THEN fr.pc = "layer" /\ fr.layer = mws[i + 1]
                                   ELSE IsRaw(fr)
                    /\ IsRaw(fr) =>
                          /\ q > n
                          /\ \A i \in 1..n :
                                /\ stack[q - n + i - 1].pc = "layer"
                                /\ stack[q - n + i - 1].layer = mws[i]
                                /\ stack[q - n + i].via = "next"
C17_ThroughThreeLayers ==
    /\ enhanced.phase = "done"
    /\ Len(stack) = 4
    /\ [i \in 1..3 |-> stack[i].layer] = <<"A", "B", "C">>
    /\ Top.pc = "reduce"
    /\ Top.via = "next"
    /\ path = <<"A", "B", "C", "store">>

\* C18: once the enhanced store is returned, a call of
\* middlewareAPI.dispatch by a middleware calls the enhanced dispatch: the
\* action enters the layer of the first middleware, with the whole chain
\* after it, whichever layer made the call.
C18_ApiDispatchReenters ==
    /\ [](enhanced.phase = "done" =>
            \A q \in 1..Len(stack) :
                stack[q].via = "api" =>
                    /\ q > 1
                    /\ stack[q - 1].pc = "layer"
                    /\ stack[q].pc = "layer"
                    /\ <<stack[q].layer>> \o stack[q].rest = enhanced.middlewares)
    /\ [][\A a \in LayerActions :
             (enhanced.phase = "done" /\ ApiDispatch(a)) =>
                 /\ Len(stack') = Len(stack) + 1
                 /\ stack'[Len(stack')].pc = "layer"
                 /\ stack'[Len(stack')].action = a
                 /\ stack'[Len(stack')].layer = enhanced.middlewares[1]
                 /\ path' = Append(path, enhanced.middlewares[1])]_vars
C18_SecondLayerReentered ==
    /\ enhanced.phase = "done"
    /\ enhanced.middlewares = <<"A", "B">>
    /\ Len(stack) = 4
    /\ stack[2].layer = "B"
    /\ stack[3].via = "api"
    /\ stack[3].layer = "A"
    /\ stack[4].layer = "B"
    /\ stack[4].via = "next"
\* C21: while the middlewares are being called with middlewareAPI (line
\* 29), the variable dispatch does not hold the composed chain yet, which is
\* assigned at line 31: a call of middlewareAPI.dispatch made by a
\* middleware at that point enters no layer of the final chain; the action
\* goes to the dispatch of the raw store, or is rejected by it.
C21_EarlyApiDispatchSkipsChain ==
    /\ [](enhanced.phase = "building" =>
            /\ enhanced.middlewares # <<>>
            /\ ApiTarget # Compose(enhanced.middlewares, RawDispatch)
            /\ \A q \in 1..Len(stack) :
                  /\ stack[q].pc # "layer"
                  /\ stack[q].via = "api" =>
                        /\ q > 1
                        /\ stack[q - 1].pc = "construct"
            /\ \A i \in 1..Len(path) : path[i] \in {"store", "rejected"})
    /\ [][\A a \in LayerActions :
             (enhanced.phase = "building" /\ ApiDispatch(a)) =>
                 /\ path' = Append(path, IF DispatchError(a) # "none"
                                          THEN "rejected" ELSE "store")
                 /\ DispatchError(a) = "none" =>
                       /\ Len(stack') = Len(stack) + 1
                       /\ stack'[Len(stack')].pc = "reduce"
                       /\ stack'[Len(stack')].action = a]_vars
\* the second of two middlewares dispatches while it is being called: the
\* reducer of the raw store runs, and neither layer has seen the action
C21_DispatchedWhileSecondIsBuilt ==
    /\ enhanced.phase = "building"
    /\ enhanced.middlewares = <<"A", "B">>
    /\ enhanced.chain = <<"A">>
    /\ Len(stack) = 2
    /\ stack[1].pc = "construct"
    /\ stack[1].layer = "B"
    /\ Top.pc = "reduce"
    /\ Top.via = "api"
    /\ path = <<"store">>

\* the listeners of the subscribe calls not yet unsubscribed, in the order
\* of those calls
IsActive(sub) == sub.isSubscribed
ActiveInOrder ==
    LET active == SelectSeq(subs, IsActive)
    IN [i \in 1..Len(active) |-> active[i].listener]

\* C22: an unsubscribe closure removes the entry its own subscribe call
\* added, so a dispatch that returns, with no subscribe or unsubscribe call
\* since it took its snapshot, has invoked the listeners of the subscribe
\* calls not yet unsubscribed, in the order of those calls, also when one
\* function was subscribed more than once.
C22_NotifiedInSubscriptionOrder ==
    \A k \in 1..Len(stack) :
        (stack[k].pc = "returned" /\ stack[k].listeners = nextListeners) =>
            stack[k].called = ActiveInOrder

\* C23: a replaceReducer call that fails leaves the store as it was,
\* whether it fails for a non-callable argument, for being made while a
\* reducer is executing, or for the new reducer throwing on INIT: the current
\* reducer is the one from before the call and the state is unchanged.
C23_FailedReplaceChangesNothing ==
    /\ [](stack # <<>> =>
            ((Top.pc = "reducerThrew" /\ Top.wanted # "none") =>
                /\ currentReducer = Top.replaced
                /\ currentState = Top.before))
    /\ [][\A r \in NextReducerFns \cup {"notFn"} :
             (ReplaceReducer(r) /\ last'.op = "replaceReducer") =>
                 /\ currentReducer' = currentReducer
                 /\ currentState' = currentState]_vars

\* C19: a bound action creator, each time it is called, calls the creator
\* once with the arguments it was given, calls dispatch once, with the value
\* the creator returned, and returns what that dispatch returned; for an
\* object bindActionCreators returns an object whose keys are exactly the
\* keys of the entries that are functions; for a value that is neither a
\* function nor a non-null object it throws and nothing is dispatched.
C19_BoundCreators ==
    /\ calls.n > 0 =>
          /\ bound.kind \in {"function", "object"}
          /\ calls.key \in DOMAIN bound.fns
          /\ calls.created = <<[creator |-> bound.fns[calls.key], arg |-> calls.arg]>>
          /\ calls.dispatched =
                <<[dispatch |-> bound.dispatch,
                   action |-> Create(bound.fns[calls.key], calls.arg)]>>
          /\ calls.returned =
                DispatchResult(bound.dispatch, Create(bound.fns[calls.key], calls.arg))
    /\ bound.given.type = "function" =>
          /\ bound.kind = "function"
          /\ bound.fns["fn"] = bound.given.fn
    /\ bound.given.type = "object" =>
          /\ bound.kind = "object"
          /\ DOMAIN bound.fns =
                {k \in DOMAIN bound.given.entries : bound.given.entries[k] \in CreatorFns}
          /\ \A k \in DOMAIN bound.fns : bound.fns[k] = bound.given.entries[k]
    /\ bound.given.type \in {"null", "number"} =>
          /\ bound.kind = "error"
          /\ calls.dispatched = <<>>

\* the second call of the only bound entry of {k1: typed, k2: not a
\* function}, bound to a dispatch that returns a value of its own
C19_SecondCallOfBoundEntry ==
    /\ bound.given.type = "object"
    /\ DOMAIN bound.given.entries = CreatorKeys
    /\ bound.given.entries["k1"] = "typed"
    /\ bound.given.entries["k2"] = "notFn"
    /\ bound.dispatch = "other"
    /\ calls.n = 2
    /\ calls.key = "k1"
    /\ calls.arg = "NOOP"
    /\ calls.returned = DispatchResult("other", Act("NOOP"))

====
